---- MODULE Spec2Model ----
(***************************************************************************)
(* Rent-vs-buy projection engine (src/public/main.py).                     *)
(*                                                                         *)
(* Numbers.  The program computes in floating point; the model computes in *)
(* the integers:                                                           *)
(*   - money is an integer number of 1/360 dollars, so that a straight-   *)
(*     line payment over the 360 months of a whole-dollar loan is exact;   *)
(*   - an annual percentage p (rates, growth means) is an integer, and the *)
(*     monthly decimal the code derives from it, p / 12 / 100, is the      *)
(*     exact fraction p / RateDen;                                         *)
(*   - a dimensionless multiplier (cumulative rent inflation, a power of   *)
(*     1 + monthly_rate) is a fixed-point integer over FixScale.           *)
(* Every product or quotient of the source is evaluated exactly and then   *)
(* rounded down to that grid (MulDiv).                                     *)
(***************************************************************************)
EXTENDS Integers, Sequences, FiniteSets, TLC

VARIABLES
    pc,                 \* where the two invocations of run_projection are:
                        \* call, loop, returned, reported
    m,                  \* the loop variable of run_projection (0 before the loop)
    params,             \* params[r]: the parameter dictionary of invocation r
    is_mc,              \* is_mc[r]: whether invocation r is a Monte Carlo run
    dims,               \* dims[r]: number of simulated paths
    stock_factors,      \* stock_factors[r][i]: monthly multiplier of path i, over RateDen
    home_factors,
    rent_factors,
    monthly_payments,   \* monthly_payments[r]: the payment schedule (piecewise constant)
    rent_base_schedule, \* rent_base_schedule[r]: the base-rent schedule (piecewise constant)
    home_values,        \* home_values[r][i][k] for the months k the loop still reads or wrote
    loan_balances,
    buy_investments,
    rent_investments,
    cum_rent_inflation,
    monthly_rent,       \* loop locals of the last iteration, per invocation and path
    total_buy_cost,
    cost_diff,
    buy_net_worth,      \* section F, for the retained months
    rent_net_worth,
    result,             \* result[r]: what analyze_scenarios reports from invocation r
    fin                 \* the last direct call of a Financials function and what it returned

vars == <<pc, m, params, is_mc, dims, stock_factors, home_factors, rent_factors,
          monthly_payments, rent_base_schedule, home_values, loan_balances,
          buy_investments, rent_investments, cum_rent_inflation, monthly_rent,
          total_buy_cost, cost_diff, buy_net_worth, rent_net_worth, result, fin>>

-----------------------------------------------------------------------------
(* Arithmetic on the grid *)

\* annual percent -> monthly decimal: "/ 12 / 100"
RateDen == 1200

\* percent -> decimal: "/ 100"
PctDen == 100

\* resolution of the dimensionless fixed-point quantities
FixScale == 10000000

Max(a, b) == IF a >= b THEN a ELSE b

\* digit size that keeps every intermediate of MulDivQR within 32 bits
Radix(c) == Max(2, 500000000 \div c)

\* <<q, r>> with a * b = q * c + r and 0 <= r < c, for b >= 0 and c > 0
RECURSIVE MulDivQR(_, _, _)
MulDivQR(a, b, c) ==
    IF b = 0 THEN <<0, 0>>
    ELSE LET K   == Radix(c)
             hi  == MulDivQR(a, b \div K, c)
             b0  == b % K
             s   == K * hi[2] + b0 * (a % c)
         IN  <<K * hi[1] + b0 * (a \div c) + (s \div c), s % c>>

\* floor(a * b / c), c > 0
MulDiv(a, b, c) ==
    IF b >= 0 THEN MulDivQR(a, b, c)[1] ELSE MulDivQR(-a, -b, c)[1]

\* (1 + monthly_rate) ** n over FixScale, monthly_rate = annual_rate / 12 / 100,
\* by squaring
RECURSIVE Pow(_, _)
Pow(annual_rate, n) ==
    IF n <= 0 THEN FixScale
    ELSE LET half == Pow(annual_rate, n \div 2)
             sq   == MulDiv(half, half, FixScale)
         IN  IF n % 2 = 1 THEN MulDiv(sq, RateDen + annual_rate, RateDen) ELSE sq

-----------------------------------------------------------------------------
(* 1. Financials *)

Return(v) == [raised |-> FALSE, value |-> v]
ZeroDivisionError == [raised |-> TRUE, value |-> 0]

calculate_pmt(principal, annual_rate, years) ==
    IF years <= 0 \/ principal <= 0 THEN Return(0)
    ELSE IF annual_rate = 0 THEN Return(principal \div (years * 12))
    ELSE LET n_payments == years * 12
             pw == Pow(annual_rate, n_payments)
         IN  Return(MulDiv(principal, MulDiv(pw, annual_rate, RateDen), pw - FixScale))

\* mutant: the number of payments taken to be the number of years
get_remaining_balance_years(principal, annual_rate, years, months_paid) ==
    IF months_paid = 0 THEN Return(principal)
    ELSE LET n_payments == years
         IN  IF annual_rate = 0
             THEN IF n_payments = 0 THEN ZeroDivisionError
                  ELSE Return(principal - MulDiv(principal, months_paid, n_payments))
             ELSE LET numerator   == Pow(annual_rate, n_payments) - Pow(annual_rate, months_paid)
                      denominator == Pow(annual_rate, n_payments) - FixScale
                  IN  IF denominator = 0 THEN ZeroDivisionError
                      ELSE Return(MulDiv(principal, numerator, denominator))

get_remaining_balance(principal, annual_rate, years, months_paid) ==
    IF months_paid = 0 THEN Return(principal)
    ELSE LET n_payments == years * 12
         IN  IF annual_rate = 0
             THEN IF n_payments = 0 THEN ZeroDivisionError
                  ELSE Return(principal - MulDiv(principal, months_paid, n_payments))
             ELSE LET numerator   == Pow(annual_rate, n_payments) - Pow(annual_rate, months_paid)
                      denominator == Pow(annual_rate, n_payments) - FixScale
                  IN  IF denominator = 0 THEN ZeroDivisionError
                      ELSE Return(MulDiv(principal, numerator, denominator))

-----------------------------------------------------------------------------
(* 2. Simulation logic *)

years == 30
months == years * 12

Runs == 1..2

\* The multipliers one row of a growth matrix can hold, over RateDen.
\* Deterministic mode: the mean every month.  Monte Carlo: draws around the
\* mean; the draws kept are one step of the volatility below and above the
\* mean, and a row holds the same draw in every month.
\* mutant: a volatility of zero replaced by a default, as "vol or default" does
generate_growth_matrices_default_vol(mean, vol, mc) ==
    IF ~mc THEN {RateDen + mean}
    ELSE {RateDen + mean + k * (IF vol = 0 THEN 1 ELSE vol) : k \in {-1, 1}}

generate_growth_matrices(mean, vol, mc) ==
    IF ~mc THEN {RateDen + mean}
    ELSE {RateDen + mean + k * vol : k \in {-1, 1}}

loan_amount(p) == p.home_price - p.down_payment_amount

closing_costs(p) == MulDiv(p.home_price, p.closing_costs_pct, PctDen)

refi_year(p) == p.refinance_year
refi_month(p) == refi_year(p) * 12

\* a schedule np.full(months, before) with [from:] overwritten by after
Schedule(before, from, after) == [before |-> before, from |-> from, after |-> after]
At(schedule, idx) == IF idx >= schedule.from THEN schedule.after ELSE schedule.before

\* mutant: the refinance cost added to the balance being refinanced
MortgageScheduleCapitalized(p) ==
    LET base_pmt == calculate_pmt(loan_amount(p), p.initial_rate, 30).value
    IN  IF refi_year(p) > 0 /\ refi_year(p) < 30
        THEN LET rem_bal == get_remaining_balance(loan_amount(p), p.initial_rate, 30,
                                                  refi_month(p)).value
                            + p.refinance_costs
                 new_pmt == calculate_pmt(rem_bal, p.refinance_rate, 30 - refi_year(p)).value
             IN  Schedule(base_pmt, refi_month(p), new_pmt)
        ELSE Schedule(base_pmt, months, base_pmt)

\* C.1 mortgage schedule
MortgageSchedule(p) ==
    LET base_pmt == calculate_pmt(loan_amount(p), p.initial_rate, 30).value
    IN  IF refi_year(p) > 0 /\ refi_year(p) < 30
        THEN LET rem_bal == get_remaining_balance(loan_amount(p), p.initial_rate, 30,
                                                  refi_month(p)).value
                 new_pmt == calculate_pmt(rem_bal, p.refinance_rate, 30 - refi_year(p)).value
             IN  Schedule(base_pmt, refi_month(p), new_pmt)
        ELSE Schedule(base_pmt, months, base_pmt)

\* mutant: the move never replaces the base rent
RentScheduleMoveIgnored(p) == Schedule(p.current_rent, months, p.current_rent)

\* C.2 rent obligation schedule
RentSchedule(p) ==
    LET move_year == p.move_to_larger_year
    IN  IF move_year > 0 /\ move_year < 30
        THEN Schedule(p.current_rent, move_year * 12, p.new_rent_today)
        ELSE Schedule(p.current_rent, months, p.current_rent)

\* mutant: the refinance rate charged from the refinance month itself, one
\* month before the new payment
curr_rate_month_early(p, k) ==
    IF refi_year(p) > 0 /\ k >= refi_month(p) THEN p.refinance_rate ELSE p.initial_rate

\* the current interest rate, annual percent (base or refi)
curr_rate(p, k) ==
    IF refi_year(p) > 0 /\ k > refi_month(p) THEN p.refinance_rate ELSE p.initial_rate

\* x * factor, factor a row entry of a growth matrix
Grow(x, factor) == MulDiv(x, factor, RateDen)

\* mutant: the cumulative rent inflation restarted at the move month
CumRentInflationSinceMove(p, k, cum_prev, factor) ==
    IF p.move_to_larger_year > 0 /\ p.move_to_larger_year < 30
       /\ k = p.move_to_larger_year * 12
    THEN FixScale ELSE MulDiv(cum_prev, factor, RateDen)

\* cum_rent_inflation[:, m] = cum_rent_inflation[:, prev] * rent_factors[:, prev]
CumRentInflation(p, k, cum_prev, factor) == Grow(cum_prev, factor)

\* monthly_rent = rent_base_schedule[m - 1] * cum_rent_inflation[:, m]
MonthlyRent(base, cum) == MulDiv(cum, base, FixScale)

\* interest_payment = loan_balances[:, prev] * (curr_rate / 12)
InterestPayment(balance, rate) == MulDiv(balance, rate, RateDen)

\* loan_balances[:, m] = max(loan_balances[:, prev] - principal_payment, 0)
UpdateLoan(balance, monthly_pmt, rate) ==
    Max(balance - (monthly_pmt - InterestPayment(balance, rate)), 0)

\* monthly_tax + monthly_ins, on the grown home value
TaxAndInsurance(p, home_value) ==
    MulDiv(home_value, p.property_tax_rate, RateDen)
    + MulDiv(home_value, p.insurance_rate, RateDen)

\* mutants: the difference taken without the floor at zero, or with the wrong sign
BuyContributionUnfloored(diff) == diff
RentContributionUnfloored(diff) == -diff
RentContributionWrongSign(diff) == IF diff > 0 THEN diff ELSE 0

\* np.maximum(0, cost_diff) and np.maximum(0, -cost_diff)
BuyContribution(diff) == Max(0, diff)
RentContribution(diff) == Max(0, -diff)

\* the one-off refinance cost taken from the buyer's investments in month k
RefiDeduction(p, k) ==
    IF refi_year(p) > 0 /\ k = refi_month(p) THEN p.refinance_costs ELSE 0

\* mutant: a 6% selling cost taken off the home value
BuyNetWorthLessSelling(home_value, loan_balance, buy_investment) ==
    (home_value - loan_balance) + buy_investment - MulDiv(home_value, 6, PctDen)

\* F. buy_net_worth = home_equity + buy_investments
BuyNetWorth(home_value, loan_balance, buy_investment) ==
    (home_value - loan_balance) + buy_investment

Paths(r) == 1..dims[r]

\* mutant: the first path's entry read for every path
PathFactorOfFirstPath(factors, i) == factors[1]

\* factors[:, prev] as path i reads it: the entry of its own row
PathFactor(factors, i) == factors[i]

\* an array column: the value of month k alone
Col(k, v) == [j \in {k} |-> v]
\* the columns kept after writing month k: month k - 1 (read as prev) and month k
Keep(old, k, v) == [j \in {k - 1, k} |-> IF j = k THEN v ELSE old[k - 1]]

-----------------------------------------------------------------------------
(* Inputs *)

\* a dollar amount on the money grid
Dollars(x) == x * months

\* current rents tried: 500, 1000, ... dollars
MaxRentSteps == 3

\* paths of a Monte Carlo run
NSims == 2

ZeroScenario ==
    [home_price |-> Dollars(500000), down_payment_amount |-> Dollars(100000),
     initial_rate |-> 0, property_tax_rate |-> 0, insurance_rate |-> 0,
     hoa_fees |-> 0, closing_costs_pct |-> 0,
     stock_growth |-> 0, home_price_growth |-> 0, rent_growth |-> 0,
     stock_volatility |-> 0, home_volatility |-> 0, rent_volatility |-> 0,
     refinance_year |-> 0, refinance_rate |-> 0, refinance_costs |-> 0,
     current_rent |-> Dollars(1000), move_to_larger_year |-> 0, new_rent_today |-> 0]

Rates == {[initial_rate |-> 0], [initial_rate |-> 6]}
Growths == {[stock_growth |-> 0, home_price_growth |-> 0, rent_growth |-> 0],
            [stock_growth |-> 6, home_price_growth |-> 3, rent_growth |-> 3]}
Costs == {[property_tax_rate |-> 0, insurance_rate |-> 0, hoa_fees |-> 0, closing_costs_pct |-> 0],
          [property_tax_rate |-> 1, insurance_rate |-> 1, hoa_fees |-> Dollars(150), closing_costs_pct |-> 2]}
Rents == {[current_rent |-> Dollars(500 * k)] : k \in 1..MaxRentSteps}
\* refinance and move years tried: the first, an inner and the last year that count
EventYears == {1, 5, 29}
Refis == {[refinance_year |-> 0, refinance_rate |-> 0, refinance_costs |-> 0]}
         \cup {[refinance_year |-> y, refinance_rate |-> 3, refinance_costs |-> Dollars(500)] :
                  y \in EventYears}
Moves == {[move_to_larger_year |-> 0, new_rent_today |-> 0]}
         \cup {[move_to_larger_year |-> y, new_rent_today |-> Dollars(1500)] :
                  y \in EventYears}

\* the record base with the fields of part overwritten
Override(base, part) ==
    [f \in DOMAIN base |-> IF f \in DOMAIN part THEN part[f] ELSE base[f]]

Scenarios ==
    {Override(Override(Override(Override(Override(Override(ZeroScenario, a), b), c), d), e), g) :
        a \in Rates, b \in Growths, c \in Costs, d \in Rents, e \in Refis, g \in Moves}

\* the reference invocation run beside the one under test
Reference(p) == [p EXCEPT !.refinance_costs = 0]

\* the otherwise identical scenario without a move event
Unmoved(p) == [p EXCEPT !.move_to_larger_year = 0]

\* the scenarios run beside p: with no refinance cost if a refinance is
\* configured, with no move if a move is configured, else p itself
References(p) ==
    (IF p.refinance_year # 0 THEN {Reference(p)} ELSE {})
    \cup (IF p.move_to_larger_year # 0 THEN {Unmoved(p)} ELSE {})
    \cup (IF p.refinance_year = 0 /\ p.move_to_larger_year = 0 THEN {p} ELSE {})

\* scenarios run in Monte Carlo mode: one volatile series each
Vols == {[stock_volatility |-> 2, home_volatility |-> 0, rent_volatility |-> 0],
         [stock_volatility |-> 0, home_volatility |-> 1, rent_volatility |-> 0],
         [stock_volatility |-> 0, home_volatility |-> 0, rent_volatility |-> 1]}
McScenarios ==
    {Override(Override(ZeroScenario,
                       [stock_growth |-> 3, home_price_growth |-> 3, rent_growth |-> 3]), v) :
        v \in Vols}

\* the same scenario with no refinance configured
Unrefinanced(p) ==
    [p EXCEPT !.refinance_year = 0, !.refinance_rate = 0, !.refinance_costs = 0]

\* refinance years outside 1..29, each with a refinance rate and cost given,
\* for a loan of the whole price and for the usual one
OutYears == {-1, 0, 30, 31}
EdgeScenarios ==
    {Override(p, [refinance_year |-> y, refinance_rate |-> 3,
                  refinance_costs |-> Dollars(500), down_payment_amount |-> d]) :
        p \in {q \in Scenarios : /\ q.refinance_year = 0 /\ q.move_to_larger_year = 0
                                  /\ q.current_rent = Dollars(1000)},
        y \in OutYears, d \in {0, Dollars(100000)}}

\* scenarios run twice in Monte Carlo mode, the draws of the two runs apart
PathScenarios == {p \in McScenarios : p.stock_volatility > 0}

\* scenarios run in Monte Carlo mode with every volatility zero
ZeroVolScenarios ==
    {p \in Scenarios : p.refinance_year \in {0, 5} /\ p.move_to_larger_year = 0}

NoCall == [fn |-> "none", principal |-> 0, annual_rate |-> 0, years |-> 0,
           months_paid |-> 0, ret |-> Return(0), prev |-> Return(0), walked |-> FALSE]

-----------------------------------------------------------------------------
(* The state machine: two invocations of run_projection, advanced together. *)
(* They are either the baselines of a scenario and of its reference, or the   *)
(* Monte Carlo run and the baseline analyze_scenarios makes of one scenario.  *)

Idle ==
    /\ m = 0
    /\ dims = [r \in Runs |-> 1]
    /\ stock_factors = [r \in Runs |-> <<RateDen>>]
    /\ home_factors = [r \in Runs |-> <<RateDen>>]
    /\ rent_factors = [r \in Runs |-> <<RateDen>>]
    /\ monthly_payments = [r \in Runs |-> Schedule(0, months, 0)]
    /\ rent_base_schedule = [r \in Runs |-> Schedule(0, months, 0)]
    /\ home_values = [r \in Runs |-> <<Col(0, 0)>>]
    /\ loan_balances = [r \in Runs |-> <<Col(0, 0)>>]
    /\ buy_investments = [r \in Runs |-> <<Col(0, 0)>>]
    /\ rent_investments = [r \in Runs |-> <<Col(0, 0)>>]
    /\ cum_rent_inflation = [r \in Runs |-> <<Col(0, FixScale)>>]
    /\ monthly_rent = [r \in Runs |-> <<0>>]
    /\ total_buy_cost = [r \in Runs |-> <<0>>]
    /\ cost_diff = [r \in Runs |-> <<0>>]
    /\ buy_net_worth = [r \in Runs |-> <<Col(0, 0)>>]
    /\ rent_net_worth = [r \in Runs |-> <<Col(0, 0)>>]
    /\ result = [r \in Runs |-> [final_buy_net_worth |-> 0, final_rent_net_worth |-> 0,
                                 buy_wins_pct |-> 0]]

Init ==
    /\ pc = "call"
    /\ \/ /\ \E p \in Scenarios : \E q \in References(p) : params = <<p, q>>
          /\ is_mc = <<FALSE, FALSE>>
       \/ /\ \E p \in EdgeScenarios : params = <<p, Unrefinanced(p)>>
          /\ is_mc = <<FALSE, FALSE>>
       \/ /\ \E p \in McScenarios \cup ZeroVolScenarios : params = <<p, p>>
          /\ is_mc = <<TRUE, FALSE>>
       \/ /\ \E p \in PathScenarios : params = <<p, p>>
          /\ is_mc = <<TRUE, TRUE>>
    /\ Idle
    /\ fin = NoCall

\* the rows a growth matrix of invocation r can hold, one entry per path
Rows(r, mean, vol) ==
    [1..(IF is_mc[r] THEN NSims ELSE 1) -> generate_growth_matrices(mean, vol, is_mc[r])]

\* run_projection, sections A to D
Setup ==
    /\ pc = "call"
    /\ pc' = "loop"
    /\ m' = 0
    /\ dims' = [r \in Runs |-> IF is_mc[r] THEN NSims ELSE 1]
    /\ \E s1 \in Rows(1, params[1].stock_growth, params[1].stock_volatility),
          s2 \in Rows(2, params[2].stock_growth, params[2].stock_volatility) :
            stock_factors' = <<s1, s2>>
    /\ \E h1 \in Rows(1, params[1].home_price_growth, params[1].home_volatility),
          h2 \in Rows(2, params[2].home_price_growth, params[2].home_volatility) :
            home_factors' = <<h1, h2>>
    /\ \E r1 \in Rows(1, params[1].rent_growth, params[1].rent_volatility),
          r2 \in Rows(2, params[2].rent_growth, params[2].rent_volatility) :
            rent_factors' = <<r1, r2>>
    /\ monthly_payments' = [r \in Runs |-> MortgageSchedule(params[r])]
    /\ rent_base_schedule' = [r \in Runs |-> RentSchedule(params[r])]
    /\ home_values' = [r \in Runs |-> [i \in 1..dims'[r] |-> Col(0, params[r].home_price)]]
    /\ loan_balances' = [r \in Runs |-> [i \in 1..dims'[r] |-> Col(0, loan_amount(params[r]))]]
    /\ buy_investments' = [r \in Runs |-> [i \in 1..dims'[r] |-> Col(0, 0)]]
    /\ rent_investments' = [r \in Runs |-> [i \in 1..dims'[r] |->
          Col(0, params[r].down_payment_amount + closing_costs(params[r]))]]
    /\ cum_rent_inflation' = [r \in Runs |-> [i \in 1..dims'[r] |-> Col(0, FixScale)]]
    /\ monthly_rent' = [r \in Runs |-> [i \in 1..dims'[r] |-> 0]]
    /\ total_buy_cost' = [r \in Runs |-> [i \in 1..dims'[r] |-> 0]]
    /\ cost_diff' = [r \in Runs |-> [i \in 1..dims'[r] |-> 0]]
    /\ UNCHANGED <<params, is_mc, buy_net_worth, rent_net_worth, result, fin>>

\* one iteration of the main simulation loop, for both invocations
MonthStep ==
    /\ pc = "loop"
    /\ m < months
    /\ m' = m + 1
    /\ home_values' = [r \in Runs |-> [i \in Paths(r) |->
          Keep(home_values[r][i], m', Grow(home_values[r][i][m], PathFactor(home_factors[r], i)))]]
    /\ cum_rent_inflation' = [r \in Runs |-> [i \in Paths(r) |->
          Keep(cum_rent_inflation[r][i], m',
               CumRentInflation(params[r], m', cum_rent_inflation[r][i][m],
                                PathFactor(rent_factors[r], i)))]]
    /\ monthly_rent' = [r \in Runs |-> [i \in Paths(r) |->
          MonthlyRent(At(rent_base_schedule[r], m' - 1), cum_rent_inflation'[r][i][m'])]]
    /\ loan_balances' = [r \in Runs |-> [i \in Paths(r) |->
          Keep(loan_balances[r][i], m',
               UpdateLoan(loan_balances[r][i][m], At(monthly_payments[r], m' - 1),
                          curr_rate(params[r], m')))]]
    /\ total_buy_cost' = [r \in Runs |-> [i \in Paths(r) |->
          At(monthly_payments[r], m' - 1)
          + TaxAndInsurance(params[r], home_values'[r][i][m'])
          + params[r].hoa_fees]]
    /\ cost_diff' = [r \in Runs |-> [i \in Paths(r) |->
          monthly_rent'[r][i] - total_buy_cost'[r][i]]]
    /\ buy_investments' = [r \in Runs |-> [i \in Paths(r) |->
          Keep(buy_investments[r][i], m',
               Grow(buy_investments[r][i][m], PathFactor(stock_factors[r], i))
               + BuyContribution(cost_diff'[r][i])
               - RefiDeduction(params[r], m'))]]
    /\ rent_investments' = [r \in Runs |-> [i \in Paths(r) |->
          Keep(rent_investments[r][i], m',
               Grow(rent_investments[r][i][m], PathFactor(stock_factors[r], i))
               + RentContribution(cost_diff'[r][i]))]]
    /\ UNCHANGED <<pc, params, is_mc, dims, stock_factors, home_factors, rent_factors,
                   monthly_payments, rent_base_schedule, buy_net_worth, rent_net_worth,
                   result, fin>>

\* run_projection, section F and the return
ReturnProjection ==
    /\ pc = "loop"
    /\ m = months
    /\ pc' = "returned"
    /\ buy_net_worth' = [r \in Runs |-> [i \in Paths(r) |->
          [k \in DOMAIN home_values[r][i] |->
              BuyNetWorth(home_values[r][i][k], loan_balances[r][i][k],
                          buy_investments[r][i][k])]]]
    /\ rent_net_worth' = [r \in Runs |-> [i \in Paths(r) |->
          [k \in DOMAIN rent_investments[r][i] |-> rent_investments[r][i][k]]]]
    /\ UNCHANGED <<m, params, is_mc, dims, stock_factors, home_factors, rent_factors,
                   monthly_payments, rent_base_schedule, home_values, loan_balances,
                   buy_investments, rent_investments, cum_rent_inflation, monthly_rent,
                   total_buy_cost, cost_diff, result, fin>>

\* the paths of invocation r whose final buy net worth beats the rent one
BuyWins(r) == {i \in Paths(r) : buy_net_worth[r][i][months] > rent_net_worth[r][i][months]}

\* analyze_scenarios: of a baseline the last yearly entry (index 360) is
\* reported, of a Monte Carlo run the share of paths where buying wins
Analyze ==
    /\ pc = "returned"
    /\ pc' = "reported"
    /\ result' = [r \in Runs |->
          IF is_mc[r]
          THEN [final_buy_net_worth |-> 0, final_rent_net_worth |-> 0,
                buy_wins_pct |-> (Cardinality(BuyWins(r)) * 100) \div dims[r]]
          ELSE [final_buy_net_worth |-> buy_net_worth[r][1][months],
                final_rent_net_worth |-> rent_net_worth[r][1][months],
                buy_wins_pct |-> 0]]
    /\ UNCHANGED <<m, params, is_mc, dims, stock_factors, home_factors, rent_factors,
                   monthly_payments, rent_base_schedule, home_values, loan_balances,
                   buy_investments, rent_investments, cum_rent_inflation, monthly_rent,
                   total_buy_cost, cost_diff, buy_net_worth, rent_net_worth, fin>>

Next == Setup \/ MonthStep \/ ReturnProjection \/ Analyze

Spec == Init /\ [][Next]_vars

-----------------------------------------------------------------------------
(* Direct calls of the Financials functions, as the unit tests make them *)

MaxFinYears == 3
MaxOverpay == 2

FinPrincipals == {0, 100, Dollars(360000), Dollars(400000)}
FinRates == {0, 6, 12}
FinYears == 0..MaxFinYears \cup {years}
\* months paid, up to a little past the end of the term
FinMonths(term) == 0..(12 * term + MaxOverpay)

SimVars == <<pc, m, params, is_mc, dims, stock_factors, home_factors, rent_factors,
             monthly_payments, rent_base_schedule, home_values, loan_balances,
             buy_investments, rent_investments, cum_rent_inflation, monthly_rent,
             total_buy_cost, cost_diff, buy_net_worth, rent_net_worth, result>>

InitFin ==
    /\ pc = "call"
    /\ params = <<ZeroScenario, ZeroScenario>>
    /\ is_mc = [r \in Runs |-> FALSE]
    /\ Idle
    /\ fin = NoCall

CallPmt ==
    /\ fin.fn = "none"
    /\ \E principal \in FinPrincipals, annual_rate \in FinRates, term \in FinYears :
        fin' = [fn |-> "calculate_pmt", principal |-> principal,
                annual_rate |-> annual_rate, years |-> term, months_paid |-> 0,
                ret |-> calculate_pmt(principal, annual_rate, term),
                prev |-> Return(0), walked |-> FALSE]
    /\ UNCHANGED SimVars

CallBalance ==
    /\ fin.fn = "none"
    /\ \E principal \in FinPrincipals, annual_rate \in FinRates, term \in FinYears :
       \E months_paid \in FinMonths(term) :
        fin' = [fn |-> "get_remaining_balance", principal |-> principal,
                annual_rate |-> annual_rate, years |-> term, months_paid |-> months_paid,
                ret |-> get_remaining_balance(principal, annual_rate, term, months_paid),
                prev |-> Return(0), walked |-> FALSE]
    /\ UNCHANGED SimVars

\* the same loan one month later, the previous answer kept beside the new one
NextBalance ==
    /\ fin.fn = "get_remaining_balance"
    /\ ~fin.ret.raised
    /\ fin.months_paid + 1 \in FinMonths(fin.years)
    /\ fin' = [fin EXCEPT !.months_paid = fin.months_paid + 1,
                          !.ret = get_remaining_balance(fin.principal, fin.annual_rate,
                                                        fin.years, fin.months_paid + 1),
                          !.prev = fin.ret,
                          !.walked = TRUE]
    /\ UNCHANGED SimVars

NextFin == CallPmt \/ CallBalance \/ NextBalance

SpecFin == InitFin /\ [][NextFin]_vars

-----------------------------------------------------------------------------
(* Claims.  Invocation 1 is the run under test; a baseline has the one path 1. *)

\* all growth, tax, insurance, HOA, rate and closing-cost parameters zero,
\* no refinance, no move
ZeroCase(p) ==
    /\ p.home_price_growth = 0 /\ p.rent_growth = 0 /\ p.stock_growth = 0
    /\ p.property_tax_rate = 0 /\ p.insurance_rate = 0 /\ p.hoa_fees = 0
    /\ p.initial_rate = 0 /\ p.closing_costs_pct = 0
    /\ p.refinance_year = 0 /\ p.move_to_larger_year = 0

\* the straight-line payment of the zero case
StraightLine(p) == loan_amount(p) \div months

\* analyze_scenarios has reported the baseline under test
Reported == pc = "reported" /\ ~is_mc[1]

C2_FinalBuyLessSellingCost ==
    (Reported /\ ZeroCase(params[1]))
        => result[1].final_buy_net_worth = MulDiv(params[1].home_price, 94, PctDen)

InMonth == pc \in {"loop", "returned", "reported"} /\ m >= 1
\* the same, in a deterministic run
InBaselineMonth == InMonth /\ ~is_mc[1]

\* the refinance-cost deduction month of invocation r is the current month
DeductionMonth(r) == refi_year(params[r]) > 0 /\ m = refi_month(params[r])

\* C4 as stated: in every month other than the refinance-cost deduction month
\* neither investment balance is lower than the month before, also when a
\* refinance cost is configured.
C4_InvestmentsNonDecreasing ==
    (InBaselineMonth /\ ~DeductionMonth(1))
        => /\ buy_investments[1][1][m] >= buy_investments[1][1][m - 1]
           /\ rent_investments[1][1][m] >= rent_investments[1][1][m - 1]

\* C4 amended: with a non-negative stock growth, in every month other than
\* the refinance-cost deduction month the rent-side balance is not lower than
\* the month before, and the buy-side balance is not lower than the month
\* before whenever that earlier balance is not negative (a refinance cost
\* larger than the balance leaves it negative, and growth then lowers it).
C4_NonDecreasingWhileNonNegative ==
    (InBaselineMonth /\ ~DeductionMonth(1) /\ params[1].stock_growth >= 0)
        => /\ rent_investments[1][1][m] >= rent_investments[1][1][m - 1]
           /\ buy_investments[1][1][m - 1] >= 0
                => buy_investments[1][1][m] >= buy_investments[1][1][m - 1]

C4_Witness ==
    /\ InBaselineMonth /\ ~DeductionMonth(1)
    /\ refi_year(params[1]) > 0 /\ params[1].refinance_costs > 0
    /\ m > refi_month(params[1])
    /\ params[1].stock_growth > 0
    /\ buy_investments[1][1][m - 1] >= 0
    /\ buy_investments[1][1][m] > buy_investments[1][1][m - 1]
    /\ rent_investments[1][1][m] > rent_investments[1][1][m - 1]

\* what month m added to the buy-side and rent-side accounts of path i of
\* invocation r, beyond the growth of the earlier balance (the refinance
\* cost is a deduction of its own, not part of the monthly flow)
BuyAdded(r, i) ==
    buy_investments[r][i][m] + RefiDeduction(params[r], m)
    - Grow(buy_investments[r][i][m - 1], stock_factors[r][i])
RentAdded(r, i) ==
    rent_investments[r][i][m] - Grow(rent_investments[r][i][m - 1], stock_factors[r][i])

RelTol == 1000
Close(a, b) == (IF a >= b THEN a - b ELSE b - a) * RelTol <= b

\* a move year in 1..29 is configured and the loop is past the move month
AfterMove(r) ==
    /\ InMonth /\ ~is_mc[r]
    /\ params[r].move_to_larger_year \in 1..29
    /\ m > params[r].move_to_larger_year * 12

\* C6 as stated: after a move the rent charged is the new rent level
\* compounded by the rent inflation accumulated since the move month only.
C6_RentCompoundsSinceMove ==
    AfterMove(1) =>
        Close(monthly_rent[1][1],
              MonthlyRent(params[1].new_rent_today,
                          Pow(params[1].rent_growth,
                              m - params[1].move_to_larger_year * 12)))

\* C6 amended: after a move the rent charged is the new rent level (given in
\* today's money) compounded by the rent inflation accumulated since month
\* zero, (1 + rent_growth / 12 / 100) ** m.
C6_RentCompoundsSinceMonthZero ==
    AfterMove(1) =>
        Close(monthly_rent[1][1],
              MonthlyRent(params[1].new_rent_today, Pow(params[1].rent_growth, m)))

C6_Witness ==
    /\ AfterMove(1)
    /\ params[1].rent_growth > 0
    /\ monthly_rent[1][1] > 2 * params[1].new_rent_today

\* C7: with a refinance year Y in 1..29 the refinance cost is taken from the
\* buyer's investments once, in month Y * 12, and is not capitalized: the
\* payment schedule, the loan balances and the home values are those of the
\* same run with refinance cost 0 (invocation 2), whose buy-side balance is
\* the same before month Y * 12, higher by the cost in that month and by at
\* least the cost afterwards; and what each month takes from the buy-side
\* account is the cost in month Y * 12 and nothing in any other month.
C7_RefiCostDeductedOnceNotCapitalized ==
    (pc # "call" /\ ~is_mc[1] /\ refi_year(params[1]) \in 1..29
     /\ params[2] = [params[1] EXCEPT !.refinance_costs = 0])
        => /\ monthly_payments[1] = monthly_payments[2]
           /\ loan_balances[1] = loan_balances[2]
           /\ home_values[1] = home_values[2]
           /\ m < refi_month(params[1])
                => buy_investments[1] = buy_investments[2]
           /\ m = refi_month(params[1])
                => buy_investments[1][1][m]
                     = buy_investments[2][1][m] - params[1].refinance_costs
           /\ m > refi_month(params[1])
                => buy_investments[1][1][m]
                     <= buy_investments[2][1][m] - params[1].refinance_costs
           /\ m >= 1
                => Grow(buy_investments[1][1][m - 1], stock_factors[1][1])
                   + BuyContribution(cost_diff[1][1]) - buy_investments[1][1][m]
                     = (IF m = refi_month(params[1])
                        THEN params[1].refinance_costs ELSE 0)

C7_Witness ==
    /\ pc = "loop" /\ refi_year(params[1]) \in 1..29
    /\ params[1].refinance_costs > 0
    /\ params[2] = [params[1] EXCEPT !.refinance_costs = 0]
    /\ m > refi_month(params[1])
    /\ monthly_payments[1].after # monthly_payments[1].before
    /\ buy_investments[1][1][m] < buy_investments[2][1][m]

-----------------------------------------------------------------------------
(* Claims about the Financials functions, under SpecFin *)

BalanceCalled == fin.fn = "get_remaining_balance"

\* C8 as stated: get_remaining_balance never returns a negative value, also
\* for months_paid greater than term * 12.
C8_BalanceNeverNegative ==
    (BalanceCalled /\ ~fin.ret.raised) => fin.ret.value >= 0

C10_FinancialsNeverRaise ==
    fin.fn # "none" => ~fin.ret.raised

-----------------------------------------------------------------------------
(* Claims about the Monte Carlo runs *)

ZeroVol(p) == p.stock_volatility = 0 /\ p.home_volatility = 0 /\ p.rent_volatility = 0

\* invocation 1 is a Monte Carlo run with every volatility zero and
\* invocation 2 the deterministic run with the same parameters
ZeroVolBesideBaseline ==
    /\ is_mc[1] /\ ~is_mc[2] /\ params[1] = params[2] /\ ZeroVol(params[1])
    /\ pc # "call"

\* C11: with all three volatilities zero a Monte Carlo run has, on every path
\* and at every month, the buy and rent net worth of the deterministic run
\* with the same parameters, and the reported buy win rate is 0% or 100%.
C11_ZeroVolEqualsBaseline ==
    ZeroVolBesideBaseline =>
        /\ \A i \in Paths(1) :
              /\ \A k \in DOMAIN home_values[1][i] :
                    /\ BuyNetWorth(home_values[1][i][k], loan_balances[1][i][k],
                                   buy_investments[1][i][k])
                         = BuyNetWorth(home_values[2][1][k], loan_balances[2][1][k],
                                       buy_investments[2][1][k])
                    /\ rent_investments[1][i][k] = rent_investments[2][1][k]
              /\ pc \in {"returned", "reported"}
                    => /\ buy_net_worth[1][i] = buy_net_worth[2][1]
                       /\ rent_net_worth[1][i] = rent_net_worth[2][1]
        /\ pc = "reported" => result[1].buy_wins_pct \in {0, 100}

C11_Witness ==
    /\ ZeroVolBesideBaseline /\ pc = "reported"
    /\ dims[1] >= 2
    /\ params[1].stock_growth > 0
    /\ result[1].buy_wins_pct = 100
    /\ result[2].final_buy_net_worth > result[2].final_rent_net_worth

\* two Monte Carlo runs with the same parameters
TwoMonteCarloRuns ==
    /\ is_mc[1] /\ is_mc[2] /\ params[1] = params[2] /\ pc # "call"

\* the growth factors of the two runs agree on path i
SameFactors(i) ==
    /\ stock_factors[1][i] = stock_factors[2][i]
    /\ home_factors[1][i] = home_factors[2][i]
    /\ rent_factors[1][i] = rent_factors[2][i]

\* the state of path i is the same in the two runs, in the months at hand
SamePathState(i) ==
    /\ home_values[1][i] = home_values[2][i]
    /\ loan_balances[1][i] = loan_balances[2][i]
    /\ buy_investments[1][i] = buy_investments[2][i]
    /\ rent_investments[1][i] = rent_investments[2][i]

\* C13: in two multi-path runs with the same parameters, a path whose growth
\* factors agree in the two runs has the same home value, loan balance, buy
\* investment and rent investment in both at every month, whatever the
\* factors of the other paths are.
C13_NoCrossPathInteraction ==
    TwoMonteCarloRuns =>
        \A i \in Paths(1) \cap Paths(2) : SameFactors(i) => SamePathState(i)

C13_Witness ==
    /\ TwoMonteCarloRuns /\ m = months
    /\ \E i, j \in Paths(1) \cap Paths(2) :
          /\ SameFactors(i) /\ SamePathState(i)
          /\ buy_investments[1][i][m] > 0 /\ rent_investments[1][i][m] > 0
          /\ ~SameFactors(j) /\ ~SamePathState(j)

-----------------------------------------------------------------------------
(* Claims that compare a scenario with a variant of it *)

\* invocation 1 has a move at a year in 1..29 to a rent above the current
\* one and invocation 2 is the same scenario without the move, both baselines
MoveBesideUnmoved ==
    /\ ~is_mc[1] /\ ~is_mc[2]
    /\ params[1].move_to_larger_year \in 1..29
    /\ params[1].new_rent_today > params[1].current_rent
    /\ params[2] = Unmoved(params[1])

\* by how much the rent-side balance of the run without the move exceeds the
\* one of the run with it, in month k
RentGap(k) == rent_investments[2][1][k] - rent_investments[1][1][k]

\* C12 as stated: the scenario with a move to a higher rent has a strictly
\* smaller final rent net worth than the same scenario without the move.
C12_MoveLowersFinalRentNetWorth ==
    (pc = "reported" /\ MoveBesideUnmoved)
        => result[1].final_rent_net_worth < result[2].final_rent_net_worth

\* C12 amended: the rent-side balance of the run with the move is never the
\* larger one; the two are equal up to the move month, and after it the run
\* with the move is strictly behind from the first month in which, without
\* the move, owning costs more than renting (the renter invests), and stays
\* equal while there is no such month; the reported final rent net worths
\* are the two balances of month 360.
C12_MoveNeverRaisesRentNetWorth ==
    MoveBesideUnmoved =>
        /\ InMonth =>
              /\ RentGap(m) >= 0
              /\ m <= params[1].move_to_larger_year * 12 => RentGap(m) = 0
              /\ (m > params[1].move_to_larger_year * 12 /\ RentAdded(2, 1) > 0)
                    => RentGap(m) > 0
              /\ RentGap(m - 1) > 0 => RentGap(m) > 0
              /\ (RentGap(m - 1) = 0 /\ RentAdded(2, 1) = 0) => RentGap(m) = 0
        /\ pc = "reported" =>
              result[2].final_rent_net_worth - result[1].final_rent_net_worth
                 = RentGap(months)

C12_Witness ==
    /\ pc = "reported" /\ MoveBesideUnmoved
    /\ params[1].rent_growth > 0
    /\ RentGap(months - 1) > 0
    /\ result[1].final_rent_net_worth < result[2].final_rent_net_worth

-----------------------------------------------------------------------------
(* Claims about the simulated loan *)

\* the simulated loan balance of the baseline under test in month k
LoanBalance(k) == loan_balances[1][1][k]

\* invocation 1 is a baseline with 0 <= down payment < home price and no
\* refinance or a refinance at a year in 1..29, and its loop has begun
LoanUnderTest ==
    /\ pc # "call" /\ ~is_mc[1]
    /\ params[1].down_payment_amount >= 0
    /\ params[1].down_payment_amount < params[1].home_price
    /\ refi_year(params[1]) \in 0..29

\* C14 as stated: the simulated loan balance is >= 0 in every month, never
\* increases, is strictly positive before month 360 and exactly 0 at month
\* 360.
C14_LoanRetiredExactly ==
    LoanUnderTest =>
        /\ LoanBalance(m) >= 0
        /\ m >= 1 => LoanBalance(m) <= LoanBalance(m - 1)
        /\ m < months => LoanBalance(m) > 0
        /\ m = months => LoanBalance(m) = 0

\* what rounding may leave of a loan at month 360: one part in LoanTol
LoanTol == 10000

\* C14 amended: the simulated loan balance is >= 0 in every month, never
\* increases, is strictly positive before month 360, and at month 360 is 0
\* up to the rounding of the arithmetic: less than one part in LoanTol of
\* the loan amount.
C14_LoanRetiredUpToRounding ==
    LoanUnderTest =>
        /\ LoanBalance(m) >= 0
        /\ m >= 1 => LoanBalance(m) <= LoanBalance(m - 1)
        /\ m < months => LoanBalance(m) > 0
        /\ m = months => LoanBalance(m) <= loan_amount(params[1]) \div LoanTol

C14_Witness ==
    /\ LoanUnderTest /\ m = months
    /\ refi_year(params[1]) \in 1..29
    /\ params[1].initial_rate > 0
    /\ LoanBalance(m - 1) > 0
    /\ LoanBalance(m) > 0
    /\ LoanBalance(m) <= loan_amount(params[1]) \div LoanTol

\* C15 as stated: a run whose refinance year is 0, negative, 30 or larger
\* has, in every month, the loan balances, payments and buy and rent
\* investment balances of the same run with no refinance configured,
\* whatever refinance rate and cost are given.
C15_RefiYearOutsideHasNoEffect ==
    (pc # "call" /\ ~is_mc[1] /\ ~is_mc[2]
     /\ refi_year(params[1]) \notin 1..29
     /\ params[2] = Unrefinanced(params[1]))
        => /\ monthly_payments[1] = monthly_payments[2]
           /\ loan_balances[1] = loan_balances[2]
           /\ buy_investments[1] = buy_investments[2]
           /\ rent_investments[1] = rent_investments[2]

====
